---- MODULE Spec2Model ----
(***************************************************************************)
(* State-machine model of the sample-app service (src/app/main.go):       *)
(* the main goroutine (initOTel, route registration, ListenAndServe),      *)
(* one goroutine per inbound request (otelhttp wrapper + healthzHandler /  *)
(* workHandler), and the shutdown closure returned by initOTel.            *)
(*                                                                         *)
(* Identifiers: trace and span ids are random in the SDK; they are         *)
(* modelled as numbers not used before (derived from the request and the   *)
(* number of spans it has started) and rendered to strings by a            *)
(* hexadecimal encoding as TraceID.String()/SpanID.String() do.  0 is the  *)
(* invalid (all-zero) id.                                                  *)
(***************************************************************************)
EXTENDS Integers, Sequences, FiniteSets, TLC

\* ------------------------------------------------------------------ bounds
MaxReq == 2
MaxCallers == 3
MaxCalls == 2

Reqs == 1..MaxReq
Callers == 1..MaxCallers

\* ------------------------------------------------------- program constants
StatusOK == 200
StatusInternalServerError == 500
Millisecond == 1000000
LatencyBound == 400
CacheBound == 200
FailPercent == 20
\* spans of one request: the root span and the two child spans
SpansPerReq == 3

\* rand.Intn(400): representative draws of [0, 400)
LatencyDraws == {0, LatencyBound - 1}
\* rand.Intn(200): representative draws of [0, 200)
CacheDraws == {50, CacheBound - 1}
\* rand.Float32() in [0,1), in hundredths
OutcomeDraws == {FailPercent - 1, FailPercent}
\* values of OTEL_EXPORTER_OTLP_ENDPOINT in the environment ("" = unset)
EnvEndpoints == {"", "collector:4317"}

VARIABLES
  mainPc,                 \* position of the main goroutine
  env,                    \* OTEL_EXPORTER_OTLP_ENDPOINT
  otelEndpoint,           \* local otelEndpoint of initOTel
  fatalMsg,               \* message of the log.Fatal/log.Fatalf that ended the process
  exitCode,               \* process exit status, -1 while running
  globalTracerProvider,   \* otel.GetTracerProvider(): "noop" or "sdk"
  globalMeterProvider,    \* otel.GetMeterProvider(): "noop" or "sdk"
  tpState,                \* tracerProvider: "none", "running", "shutdown"
  mpState,                \* meterProvider: "none", "running", "shutdown"
  traceExporterCloses,    \* times the trace exporter was shut down
  metricExporterCloses,   \* times the metric exporter was shut down
  deferred,               \* main's defer stack holds shutdown(ctx)
  shutdownCalls,          \* completed invocations of the shutdown closure
  routes,                 \* patterns registered on the DefaultServeMux
  req,                    \* per-request goroutine: pc and locals
  spans,                  \* every span started so far
  logs,                   \* per request, the records written to stdout
  resp,                   \* per request, the ResponseWriter
  events,                 \* per request, the observable events in order
  callerPc,               \* position of each caller inside the shutdown closure
  callsDone               \* completed closure calls per caller

mainVars == <<mainPc, env, otelEndpoint, fatalMsg, exitCode, globalTracerProvider,
              globalMeterProvider, deferred, routes>>
provVars == <<tpState, mpState, traceExporterCloses, metricExporterCloses>>
reqVars == <<req, spans, logs, resp, events>>
callVars == <<callerPc, callsDone, shutdownCalls>>
vars == <<mainVars, provVars, reqVars, callVars>>

\* ----------------------------------------------------------------- helpers
HexDigits == <<"0","1","2","3","4","5","6","7","8","9","a","b","c","d","e","f">>

\* hex encoding of an id (ids are kept below 256: two digits)
Hex(n) == HexDigits[((n \div 16) % 16) + 1] \o HexDigits[(n % 16) + 1]

TraceIDString(t) == Hex(t)
SpanIDString(s) == Hex(s)

\* time.Duration.Milliseconds()
Milliseconds(d) == d \div Millisecond

\* a context without a span: SpanFromContext gives the invalid span context
NoCtx == [traceId |-> 0, spanId |-> 0]

NoLogAttrs == [trace_id |-> "", span_id |-> ""]

NoReq == [pc |-> "idle", route |-> "", ctx |-> NoCtx, logAttrs |-> NoLogAttrs,
          childSpan |-> 0, cacheSpan |-> 0, latency |-> 0, draw |-> -1]

NoResp == [code |-> 0, body |-> ""]

\* the id generator of the SDK: an id no span has yet (a request starts at
\* most SpansPerReq spans, each in a trace of its own at most)
NewSpanID(r) ==
  SpansPerReq * (r - 1) + Cardinality({s \in spans : s.req = r}) + 1
NewTraceID(r) ==
  SpansPerReq * (r - 1) + Cardinality({s.traceId : s \in {t \in spans : t.req = r}}) + 1

\* Tracer.Start(ctx, name): same trace as the span in ctx, which becomes the
\* parent; a new trace when ctx carries no span
StartSpan(c, name, r) ==
  [id |-> NewSpanID(r),
   traceId |-> IF c.traceId = 0 THEN NewTraceID(r) ELSE c.traceId,
   parent |-> c.spanId, name |-> name, req |-> r, open |-> TRUE, held |-> 0]

\* Span.End() of span id, after it was held open for d
EndSpan(S, id, d) ==
  {IF s.id = id THEN [s EXCEPT !.open = FALSE, !.held = d] ELSE s : s \in S}

\* ResponseWriter.WriteHeader / Write (a Write without a header sends 200)
WriteHeader(w, code) == IF w.code = 0 THEN [w EXCEPT !.code = code] ELSE w
Write(w, b) == [code |-> IF w.code = 0 THEN StatusOK ELSE w.code, body |-> w.body \o b]

\* http.Error(w, error, code): WriteHeader(code); fmt.Fprintln(w, error)
HttpError(w, error, code) == Write(WriteHeader(w, code), error \o "\n")

Ev(r, es) == [events EXCEPT ![r] = @ \o es]

\* ------------------------------------------------------------------- Init
Init ==
  /\ mainPc = "resource"
  /\ env \in EnvEndpoints
  /\ otelEndpoint = ""
  /\ fatalMsg = ""
  /\ exitCode = -1
  /\ globalTracerProvider = "noop"
  /\ globalMeterProvider = "noop"
  /\ tpState = "none"
  /\ mpState = "none"
  /\ traceExporterCloses = 0
  /\ metricExporterCloses = 0
  /\ deferred = FALSE
  /\ shutdownCalls = 0
  /\ routes = {}
  /\ req = [r \in Reqs |-> NoReq]
  /\ spans = {}
  /\ logs = [r \in Reqs |-> <<>>]
  /\ resp = [r \in Reqs |-> NoResp]
  /\ events = [r \in Reqs |-> <<>>]
  /\ callerPc = [c \in Callers |-> "idle"]
  /\ callsDone = [c \in Callers |-> 0]

\* --------------------------------------------------------- main goroutine
\* log.Fatal / log.Fatalf: print, then os.Exit(1); deferred calls do not run
Fatal(msg) ==
  /\ mainPc' = "exited"
  /\ fatalMsg' = msg
  /\ exitCode' = 1

\* resource.New and the endpoint lookup
NewResource ==
  /\ mainPc = "resource"
  /\ \/ /\ mainPc' = "trace_exporter"
        /\ otelEndpoint' = IF env = "" THEN "otel-collector:4317" ELSE env
        /\ UNCHANGED <<fatalMsg, exitCode>>
     \/ /\ Fatal("failed to create resource")
        /\ UNCHANGED otelEndpoint
  /\ UNCHANGED <<env, globalTracerProvider, globalMeterProvider, deferred, routes>>
  /\ UNCHANGED <<provVars, reqVars, callVars>>

\* otlptracegrpc.New, NewTracerProvider, otel.SetTracerProvider
NewTraceExporter ==
  /\ mainPc = "trace_exporter"
  /\ \/ /\ mainPc' = "metric_exporter"
        /\ tpState' = "running"
        /\ globalTracerProvider' = "sdk"
        /\ UNCHANGED <<fatalMsg, exitCode>>
     \/ /\ Fatal("failed to create trace exporter")
        /\ UNCHANGED <<tpState, globalTracerProvider>>
  /\ UNCHANGED <<env, otelEndpoint, globalMeterProvider, deferred, routes>>
  /\ UNCHANGED <<mpState, traceExporterCloses, metricExporterCloses, reqVars, callVars>>

\* variant: a metric exporter error is logged and initOTel goes on without it
NewMetricExporterLenient ==
  /\ mainPc = "metric_exporter"
  /\ mainPc' = "initialized"
  /\ \/ /\ mpState' = "running"
        /\ globalMeterProvider' = "sdk"
     \/ UNCHANGED <<mpState, globalMeterProvider>>
  /\ UNCHANGED <<fatalMsg, exitCode>>
  /\ UNCHANGED <<env, otelEndpoint, globalTracerProvider, deferred, routes>>
  /\ UNCHANGED <<tpState, traceExporterCloses, metricExporterCloses, reqVars, callVars>>

\* otlpmetricgrpc.New, NewMeterProvider, otel.SetMeterProvider, return of the closure
NewMetricExporter ==
  /\ mainPc = "metric_exporter"
  /\ \/ /\ mainPc' = "initialized"
        /\ mpState' = "running"
        /\ globalMeterProvider' = "sdk"
        /\ UNCHANGED <<fatalMsg, exitCode>>
     \/ /\ Fatal("failed to create metric exporter")
        /\ UNCHANGED <<mpState, globalMeterProvider>>
  /\ UNCHANGED <<env, otelEndpoint, globalTracerProvider, deferred, routes>>
  /\ UNCHANGED <<tpState, traceExporterCloses, metricExporterCloses, reqVars, callVars>>

\* defer shutdown(ctx); http.Handle of both routes
RegisterRoutes ==
  /\ mainPc = "initialized"
  /\ mainPc' = "listen"
  /\ deferred' = TRUE
  /\ routes' = {"/healthz", "/work"}
  /\ UNCHANGED <<env, otelEndpoint, fatalMsg, exitCode, globalTracerProvider,
                 globalMeterProvider>>
  /\ UNCHANGED <<provVars, reqVars, callVars>>

\* http.ListenAndServe(":8080", nil): the bind succeeds and the accept loop
\* runs (nothing in the program closes the server), or the bind fails and
\* the error goes to log.Fatal
ListenAndServe ==
  /\ mainPc = "listen"
  /\ \/ /\ mainPc' = "serving"
        /\ UNCHANGED <<fatalMsg, exitCode>>
     \/ Fatal("listen tcp :8080: bind: address already in use")
  /\ UNCHANGED <<env, otelEndpoint, globalTracerProvider, globalMeterProvider,
                 deferred, routes>>
  /\ UNCHANGED <<provVars, reqVars, callVars>>

\* ------------------------------------------------------ request goroutines
\* variant: both routes wrapped under the operation name "work"
HandlerNameWork(route) == "work"

\* the operation name given to otelhttp.NewHandler for each pattern
HandlerName(route) == IF route = "/healthz" THEN "healthz" ELSE "work"

\* The server accepts request r for a registered route and runs the
\* otelhttp handler: it starts the root span named after the operation and
\* puts it in the request context, then calls the wrapped handler.
Accept(r) ==
  /\ mainPc = "serving"
  /\ req[r].pc = "idle"
  /\ \E route \in routes :
       LET root == StartSpan(NoCtx, HandlerName(route), r) IN
       /\ spans' = spans \cup {root}
       /\ req' = [req EXCEPT ![r].pc = IF route = "/work" THEN "work_entry" ELSE "healthz_entry",
                             ![r].route = route,
                             ![r].ctx = [traceId |-> root.traceId, spanId |-> root.id]]
       /\ events' = Ev(r, <<"start:" \o root.name>>)
  /\ UNCHANGED <<logs, resp>>
  /\ UNCHANGED <<mainVars, provVars, callVars>>

\* variant: the liveness route reports the failure of an earlier /work request
healthzHandlerShared(r) ==
  /\ req[r].pc = "healthz_entry"
  /\ resp' = [resp EXCEPT ![r] =
       IF \E q \in Reqs : resp[q].code = StatusInternalServerError
         THEN HttpError(@, "Internal Server Error", StatusInternalServerError)
         ELSE Write(WriteHeader(@, StatusOK), "OK")]
  /\ events' = Ev(r, <<"response">>)
  /\ req' = [req EXCEPT ![r].pc = "returned"]
  /\ UNCHANGED <<spans, logs>>
  /\ UNCHANGED <<mainVars, provVars, callVars>>

\* healthzHandler: WriteHeader(200), Write("OK")
healthzHandler(r) ==
  /\ req[r].pc = "healthz_entry"
  /\ resp' = [resp EXCEPT ![r] = Write(WriteHeader(@, StatusOK), "OK")]
  /\ events' = Ev(r, <<"response">>)
  /\ req' = [req EXCEPT ![r].pc = "returned"]
  /\ UNCHANGED <<spans, logs>>
  /\ UNCHANGED <<mainVars, provVars, callVars>>

\* variant: simulate_work started from context.Background()
SimulateWorkCtxBackground(r) == NoCtx

\* the context handed to Start for the simulate_work span
SimulateWorkCtx(r) == req[r].ctx

\* variant: db_cache_lookup started from the context returned for simulate_work
CacheLookupCtxNested(r) == [traceId |-> req[r].ctx.traceId, spanId |-> req[r].childSpan]

\* the context handed to Start for the db_cache_lookup span
CacheLookupCtx(r) == req[r].ctx

\* workHandler up to the first sleep: the logger handle takes the ids of the
\* span in the request context, simulate_work starts, the latency is drawn
WorkEntry(r) ==
  /\ req[r].pc = "work_entry"
  /\ \E n \in LatencyDraws :
       LET child == StartSpan(SimulateWorkCtx(r), "simulate_work", r) IN
       /\ spans' = spans \cup {child}
       /\ req' = [req EXCEPT ![r].pc = "sleep_work",
                             ![r].logAttrs = [trace_id |-> TraceIDString(req[r].ctx.traceId),
                                              span_id |-> SpanIDString(req[r].ctx.spanId)],
                             ![r].childSpan = child.id,
                             ![r].latency = n * Millisecond]
  /\ events' = Ev(r, <<"start:simulate_work">>)
  /\ UNCHANGED <<logs, resp>>
  /\ UNCHANGED <<mainVars, provVars, callVars>>

\* variant: the sleep is taken under a process-wide lock, in arrival order
SleepWorkSerial(r) ==
  /\ req[r].pc = "sleep_work"
  /\ \A q \in Reqs : q < r => req[q].pc # "sleep_work"
  /\ spans' = EndSpan(spans, req[r].childSpan, req[r].latency)
  /\ events' = Ev(r, <<"end:simulate_work">>)
  /\ req' = [req EXCEPT ![r].pc = "cache_entry"]
  /\ UNCHANGED <<logs, resp>>
  /\ UNCHANGED <<mainVars, provVars, callVars>>

\* time.Sleep(latency) returns; childSpan.End()
SleepWork(r) ==
  /\ req[r].pc = "sleep_work"
  /\ spans' = EndSpan(spans, req[r].childSpan, req[r].latency)
  /\ events' = Ev(r, <<"end:simulate_work">>)
  /\ req' = [req EXCEPT ![r].pc = "cache_entry"]
  /\ UNCHANGED <<logs, resp>>
  /\ UNCHANGED <<mainVars, provVars, callVars>>

\* db_cache_lookup starts; its sleep is requested (the duration is kept
\* nowhere but in the sleeping call)
CacheEntry(r) ==
  /\ req[r].pc = "cache_entry"
  /\ LET cache == StartSpan(CacheLookupCtx(r), "db_cache_lookup", r) IN
       /\ spans' = spans \cup {cache}
       /\ req' = [req EXCEPT ![r].pc = "sleep_cache", ![r].cacheSpan = cache.id]
  /\ events' = Ev(r, <<"start:db_cache_lookup">>)
  /\ UNCHANGED <<logs, resp>>
  /\ UNCHANGED <<mainVars, provVars, callVars>>

\* time.Sleep(rand.Intn(200) ms) returns; cacheSpan.End()
SleepCache(r) ==
  /\ req[r].pc = "sleep_cache"
  /\ \E n \in CacheDraws :
       spans' = EndSpan(spans, req[r].cacheSpan, n * Millisecond)
  /\ events' = Ev(r, <<"end:db_cache_lookup">>)
  /\ req' = [req EXCEPT ![r].pc = "outcome"]
  /\ UNCHANGED <<logs, resp>>
  /\ UNCHANGED <<mainVars, provVars, callVars>>

\* variant: the comparison is <= instead of <
FailedInclusive(draw) == draw <= FailPercent

\* rand.Float32() < 0.2, the draw in hundredths
Failed(draw) == draw < FailPercent

\* variant: the record carries the time of both sleeps
LoggedLatencyTotal(r) ==
  LET cache == CHOOSE s \in spans : s.id = req[r].cacheSpan IN
  Milliseconds(req[r].latency + cache.held)

\* the latency_ms attribute of the record
LoggedLatencyMs(r) == Milliseconds(req[r].latency)

\* slog record of the handle made by logger.With(trace_id, span_id)
LogRecord(r, level, msg, status) ==
  [level |-> level, msg |-> msg,
   trace_id |-> req[r].logAttrs.trace_id, span_id |-> req[r].logAttrs.span_id,
   latency_ms |-> LoggedLatencyMs(r), status |-> status]

\* the outcome draw, the log record and the response
Outcome(r) ==
  /\ req[r].pc = "outcome"
  /\ \E d \in OutcomeDraws :
       /\ req' = [req EXCEPT ![r].pc = "returned", ![r].draw = d]
       /\ IF Failed(d)
            THEN /\ logs' = [logs EXCEPT ![r] = Append(@, LogRecord(r, "ERROR", "request failed", 500))]
                 /\ resp' = [resp EXCEPT ![r] = HttpError(@, "Internal Server Error", StatusInternalServerError)]
            ELSE /\ logs' = [logs EXCEPT ![r] = Append(@, LogRecord(r, "INFO", "request succeeded", 200))]
                 /\ resp' = [resp EXCEPT ![r] = Write(@, "Work completed\n")]
  /\ events' = Ev(r, <<"log", "response">>)
  /\ UNCHANGED spans
  /\ UNCHANGED <<mainVars, provVars, callVars>>

\* the wrapped handler has returned: otelhttp ends the root span
EndRoot(r) ==
  /\ req[r].pc = "returned"
  /\ spans' = EndSpan(spans, req[r].ctx.spanId, 0)
  /\ events' = Ev(r, <<"end:" \o HandlerName(req[r].route)>>)
  /\ req' = [req EXCEPT ![r].pc = "done"]
  /\ UNCHANGED <<logs, resp>>
  /\ UNCHANGED <<mainVars, provVars, callVars>>

\* every step of a request after it was accepted
Handle(r) ==
  \/ healthzHandler(r)
  \/ WorkEntry(r)
  \/ SleepWork(r)
  \/ CacheEntry(r)
  \/ SleepCache(r)
  \/ Outcome(r)
  \/ EndRoot(r)

\* ------------------------------------------------------- shutdown closure
\* The closure returned by initOTel, as called by any holder of it.
\* tracerProvider.Shutdown(ctx): the first call shuts the batch processor
\* and its exporter down, a later call returns at once; the result is dropped.
ShutdownTracer(c) ==
  /\ mainPc = "initialized"
  /\ callerPc[c] = "idle"
  /\ callsDone[c] < MaxCalls
  /\ IF tpState = "running"
       THEN /\ tpState' = "shutdown"
            /\ traceExporterCloses' = traceExporterCloses + 1
       ELSE UNCHANGED <<tpState, traceExporterCloses>>
  /\ callerPc' = [callerPc EXCEPT ![c] = "meter"]
  /\ UNCHANGED <<mpState, metricExporterCloses, callsDone, shutdownCalls>>
  /\ UNCHANGED <<mainVars, reqVars>>

\* variant: the closure leaves the meter provider running
ShutdownMeterSkipped(c) ==
  /\ callerPc[c] = "meter"
  /\ callerPc' = [callerPc EXCEPT ![c] = "idle"]
  /\ callsDone' = [callsDone EXCEPT ![c] = @ + 1]
  /\ shutdownCalls' = shutdownCalls + 1
  /\ UNCHANGED provVars
  /\ UNCHANGED <<mainVars, reqVars>>

\* meterProvider.Shutdown(ctx): the first call shuts the periodic reader and
\* its exporter down, a later call returns an error; the result is dropped.
ShutdownMeter(c) ==
  /\ callerPc[c] = "meter"
  /\ IF mpState = "running"
       THEN /\ mpState' = "shutdown"
            /\ metricExporterCloses' = metricExporterCloses + 1
       ELSE UNCHANGED <<mpState, metricExporterCloses>>
  /\ callerPc' = [callerPc EXCEPT ![c] = "idle"]
  /\ callsDone' = [callsDone EXCEPT ![c] = @ + 1]
  /\ shutdownCalls' = shutdownCalls + 1
  /\ UNCHANGED <<tpState, traceExporterCloses>>
  /\ UNCHANGED <<mainVars, reqVars>>

\* initOTel followed by calls of the closure it returned
ShutdownNext ==
  \/ NewResource
  \/ NewTraceExporter
  \/ NewMetricExporter
  \/ \E c \in Callers : ShutdownTracer(c)
  \/ \E c \in Callers : ShutdownMeter(c)

ShutdownSpec == Init /\ [][ShutdownNext]_vars

\* ---------------------------------------------------------- specification
Next ==
  \/ NewResource
  \/ NewTraceExporter
  \/ NewMetricExporter
  \/ RegisterRoutes
  \/ ListenAndServe
  \/ \E r \in Reqs : Accept(r)
  \/ \E r \in Reqs : Handle(r)

Spec == Init /\ [][Next]_vars

\* the Go scheduler runs every runnable goroutine
FairSpec == Spec /\ \A r \in Reqs : WF_vars(Handle(r))

\* ------------------------------------------------------------ properties
Work(r) == req[r].route = "/work"
Healthz(r) == req[r].route = "/healthz"
Returned(r) == req[r].pc \in {"returned", "done"}
InFlight(r) == req[r].pc \notin {"idle", "done"}
SpansOf(r) == {s \in spans : s.req = r}
Named(r, name) == {s \in SpansOf(r) : s.name = name}
InitOTelReturned == mainPc \in {"initialized", "listen", "serving"} \/ deferred

\* C1: every exit of the process after initOTel has returned is preceded by
\* exactly one invocation of the shutdown closure.
C1_ShutdownBeforeExit ==
  (mainPc = "exited" /\ InitOTelReturned) => shutdownCalls = 1

\* C2: a /work request emits exactly one log record; its trace_id is the
\* trace id of the root span and of both child spans of the request, and no
\* span or record of one request carries the trace id of another request.
C2_TraceCorrelation ==
  \A r \in Reqs :
    /\ Len(logs[r]) <= 1
    /\ (Work(r) /\ Returned(r)) => Len(logs[r]) = 1
    /\ \A s \in SpansOf(r) : s.traceId = req[r].ctx.traceId
    /\ \A i \in 1..Len(logs[r]) : \A s \in SpansOf(r) :
         logs[r][i].trace_id = TraceIDString(s.traceId)
    /\ \A q \in Reqs \ {r} : \A t \in SpansOf(q) :
         /\ \A s \in SpansOf(r) : s.traceId # t.traceId
         /\ \A i \in 1..Len(logs[r]) : logs[r][i].trace_id # TraceIDString(t.traceId)

C2_Witness ==
  \A r \in {1, 2} :
    /\ Work(r) /\ req[r].pc = "done"
    /\ Cardinality(SpansOf(r)) = 3
    /\ Len(logs[r]) = 1

\* the outcome of a returned /work request as a function of its draw alone,
\* with errBody the body of the failure response
OutcomeIs(r, errBody) ==
  IF req[r].draw < FailPercent
    THEN /\ Len(logs[r]) = 1
         /\ logs[r][1].level = "ERROR"
         /\ logs[r][1].status = 500
         /\ resp[r] = [code |-> 500, body |-> errBody]
    ELSE /\ Len(logs[r]) = 1
         /\ logs[r][1].level = "INFO"
         /\ logs[r][1].status = 200
         /\ resp[r] = [code |-> 200, body |-> "Work completed\n"]

\* C3 (as stated): the failure response has the body `Internal Server Error`.
C3_OutcomeAsStated ==
  \A r \in Reqs : (Work(r) /\ Returned(r)) => OutcomeIs(r, "Internal Server Error")

\* C3 (amended): a draw below 0.20 gives one error record with status 500 and
\* the response 500 `Internal Server Error\n`; any other draw gives one info
\* record with status 200 and the response 200 `Work completed\n`; the
\* status of the record is the status sent, whatever the latency draws.
C3_Outcome ==
  \A r \in Reqs :
    (Work(r) /\ Returned(r)) =>
      /\ OutcomeIs(r, "Internal Server Error\n")
      /\ logs[r][1].status = resp[r].code

C3_Witness ==
  /\ req[1].pc = "done" /\ Work(1) /\ req[1].draw = FailPercent - 1
  /\ req[1].latency = 0 /\ resp[1].code = 500
  /\ req[2].pc = "done" /\ Work(2) /\ req[2].draw = FailPercent
  /\ req[2].latency = 0 /\ resp[2].code = 200

\* C4: on both paths latency_ms is the time the simulate_work span was held
\* open by its sleep, in milliseconds, and lies in [0, 400), whatever the
\* db_cache_lookup duration is.
C4_LatencyLogged ==
  \A r \in Reqs : \A i \in 1..Len(logs[r]) :
    /\ logs[r][i].latency_ms \in 0..(LatencyBound - 1)
    /\ \A s \in Named(r, "simulate_work") :
         /\ ~s.open
         /\ s.held = logs[r][i].latency_ms * Millisecond
    /\ Cardinality(Named(r, "simulate_work")) = 1

C4_Witness ==
  /\ Len(logs[1]) = 1 /\ logs[1][1].latency_ms = 0 /\ logs[1][1].status = 500
  /\ \E s \in Named(1, "db_cache_lookup") : s.held = (CacheBound - 1) * Millisecond
  /\ Len(logs[2]) = 1 /\ logs[2][1].latency_ms = LatencyBound - 1 /\ logs[2][1].status = 200

\* C5 (as stated): every span started belongs to a /work request.
C5_NoHealthzSpan ==
  \A s \in spans : Work(s.req)

\* C5 (amended): a /healthz request starts exactly one span, the root span
\* "healthz" of the instrumented handler layer, and no child span; the spans
\* "work", "simulate_work" and "db_cache_lookup" belong to /work requests only.
C5_HealthzRootSpanOnly ==
  /\ \A s \in spans :
       /\ s.name \in {"work", "simulate_work", "db_cache_lookup"} => Work(s.req)
       /\ Healthz(s.req) => (s.name = "healthz" /\ s.parent = 0)
  /\ \A r \in Reqs : Healthz(r) => Cardinality(SpansOf(r)) = 1

C5_Witness ==
  \E r, q \in Reqs :
    /\ Healthz(r) /\ req[r].pc = "done"
    /\ Work(q) /\ req[q].pc = "done"

\* C6: every /healthz response is 200 `OK`, whatever /work requests have
\* done before or are doing meanwhile.
C6_HealthzAlwaysOK ==
  \A r \in Reqs :
    (Healthz(r) /\ Returned(r)) => resp[r] = [code |-> 200, body |-> "OK"]

C6_Witness ==
  \E r, q \in Reqs :
    /\ Healthz(r) /\ req[r].pc = "returned"
    /\ Work(q) /\ req[q].pc = "done" /\ resp[q].code = 500

\* C7: however often the closure is called, each exporter is shut down at
\* most once, and once one call has completed both providers are shut down
\* and stay as they are.
C7_ShutdownIdempotent ==
  /\ traceExporterCloses <= 1
  /\ metricExporterCloses <= 1
  /\ shutdownCalls >= 1 =>
       /\ tpState = "shutdown" /\ mpState = "shutdown"
       /\ traceExporterCloses = 1 /\ metricExporterCloses = 1

C7_Witness ==
  /\ \E c \in Callers : callsDone[c] >= 2
  /\ \E c, d \in Callers : c # d /\ callsDone[c] >= 1 /\ callsDone[d] >= 1

\* C8: while a request is being served both providers are constructed and
\* registered as the process-wide defaults; after a failed construction the
\* process has exited with no route registered and no request accepted.
C8_NoServingHalfInitialized ==
  /\ \A r \in Reqs :
       req[r].pc # "idle" =>
         /\ globalTracerProvider = "sdk" /\ tpState = "running"
         /\ globalMeterProvider = "sdk" /\ mpState = "running"
  /\ (globalTracerProvider # "sdk" \/ globalMeterProvider # "sdk") =>
       /\ mainPc # "serving"
       /\ routes = {}
       /\ \A r \in Reqs : req[r].pc = "idle"
  /\ fatalMsg \in {"failed to create resource", "failed to create trace exporter",
                   "failed to create metric exporter"} =>
       /\ mainPc = "exited" /\ exitCode = 1
       /\ routes = {}
       /\ \A r \in Reqs : req[r].pc = "idle"

C8_Witness ==
  \E r \in Reqs : InFlight(r) /\ mainPc = "serving"

\* C9: a request in flight can always take its next step and an idle one can
\* always be accepted, whatever the other requests are doing; every accepted
\* request eventually completes, with exactly one response.
C9_RequestsIndependent ==
  /\ [](\A r \in Reqs : InFlight(r) => ENABLED Handle(r))
  /\ [](\A r \in Reqs : (mainPc = "serving" /\ req[r].pc = "idle") => ENABLED Accept(r))
  /\ [](\A r \in Reqs :
          /\ Cardinality({i \in 1..Len(events[r]) : events[r][i] = "response"}) <= 1
          /\ Returned(r) => Cardinality({i \in 1..Len(events[r]) : events[r][i] = "response"}) = 1)
  /\ \A r \in Reqs : (req[r].pc # "idle") ~> (req[r].pc = "done")

C9_Witness ==
  \E r, q \in Reqs :
    /\ req[r].pc = "sleep_work"
    /\ req[q].pc = "done" /\ Work(q) /\ resp[q].code = 500

WorkEvents ==
  <<"start:work", "start:simulate_work", "end:simulate_work",
    "start:db_cache_lookup", "end:db_cache_lookup", "log", "response", "end:work">>

\* C10: the events of a /work request occur in the order of WorkEvents on
\* both paths; both child spans are children of the root span, are never
\* open together, and no span is open once the request is done (no child
\* span once workHandler has returned).
C10_EventOrder ==
  \A r \in Reqs :
    Work(r) =>
      /\ Len(events[r]) <= Len(WorkEvents)
      /\ events[r] = SubSeq(WorkEvents, 1, Len(events[r]))
      /\ req[r].pc = "done" => events[r] = WorkEvents
      /\ \A s \in SpansOf(r) :
           /\ s.name \in {"simulate_work", "db_cache_lookup"} =>
                (s.parent = req[r].ctx.spanId /\ s.traceId = req[r].ctx.traceId)
           /\ s.name = "work" => (s.parent = 0 /\ s.id = req[r].ctx.spanId)
      /\ ~(\E s \in Named(r, "simulate_work"), t \in Named(r, "db_cache_lookup") :
             s.open /\ t.open)
      /\ Returned(r) => \A s \in SpansOf(r) : s.open => s.name = "work"
      /\ req[r].pc = "done" => \A s \in SpansOf(r) : ~s.open

C10_Witness ==
  /\ Work(1) /\ req[1].pc = "done" /\ resp[1].code = 500
  /\ Work(2) /\ req[2].pc = "done" /\ resp[2].code = 200
  /\ Cardinality(SpansOf(1)) = 3 /\ Cardinality(SpansOf(2)) = 3

====
